---- MODULE Spec2Model ----
(***************************************************************************)
(* Business dashboard (src/app.py): the SQLite-backed BusinessDashboard    *)
(* data access layer and the Flask routes that call it.                    *)
(*                                                                         *)
(* Python values are records [t, s, n, d]: t is the Python type, s the     *)
(* text of a str, n/d the exact value of a number (d = 1 for an int).      *)
(* Money and metric values are exact rationals, so SUM and AVG are exact.  *)
(***************************************************************************)
EXTENDS Integers, Sequences, FiniteSets, TLC

VARIABLES db, last, okEmployees, okSales, okRevenue, okMetrics

vars == <<db, last, okEmployees, okSales, okRevenue, okMetrics>>

(***************************************************************************)
(* Bounds of the explored behaviours.                                      *)
(***************************************************************************)
\* committed writes explored by Spec and SpecHttp
MaxWrites == 3
\* in SpecBulk, the first MaxPrelude committed writes may go to any table
MaxPrelude == 2
\* rows of the sales table explored by SpecBulk (beyond the LIMIT of get_sales)
MaxBulkSales == 102

(***************************************************************************)
(* Python values.                                                          *)
(***************************************************************************)
PyNone == [t |-> "none", s |-> "", n |-> 0, d |-> 1]

PyStr(x) == [t |-> "str", s |-> x, n |-> 0, d |-> 1]

PyInt(k) == [t |-> "int", s |-> "", n |-> k, d |-> 1]

\* an int beyond the range of a float (and of a 64-bit SQLite INTEGER)
PyHuge == [t |-> "bigint", s |-> "", n |-> 0, d |-> 1]

PyNaN == [t |-> "nan", s |-> "", n |-> 0, d |-> 1]

RECURSIVE Gcd(_, _)
Gcd(a, b) == IF b = 0 THEN a ELSE Gcd(b, a % b)

Abs(k) == IF k < 0 THEN -k ELSE k

\* the float of value num/den, in lowest terms
PyFloatQ(num, den) ==
    LET g == Gcd(Abs(num), den)
    IN  [t |-> "float", s |-> "", n |-> num \div g, d |-> den \div g]

PyFloat(k) == PyFloatQ(k, 1)

\* a raised exception, as the outcome of an expression
Raise(kind) == [t |-> "exc", s |-> kind, n |-> 0, d |-> 1]

IsExc(x) == x.t = "exc"

IsNumber(x) == x.t \in {"int", "float"}

\* isinstance(value, (int, float))
IsIntOrFloat(x) == x.t \in {"int", "float", "nan", "bigint"}

\* bool(x), as `not x` uses it
Truthy(x) ==
    CASE x.t = "none" -> FALSE
      [] x.t = "str" -> x.s # ""
      [] x.t \in {"int", "float"} -> x.n # 0
      [] OTHER -> TRUE

\* x < k and x <= k for a number x and an int k; every comparison with nan is False
PyLt(x, k) ==
    CASE x.t \in {"int", "float"} -> x.n < k * x.d
      [] OTHER -> FALSE

PyLe(x, k) ==
    CASE x.t \in {"int", "float"} -> x.n <= k * x.d
      [] OTHER -> FALSE

\* x == y on numbers (an int equals the float of the same value)
PyEq(x, y) == IsNumber(x) /\ IsNumber(y) /\ x.n * y.d = y.n * x.d

\* the strings float() parses, with what it returns
ParsedFloat(str) ==
    CASE str = "15" -> PyFloat(15)
      [] str = "500" -> PyFloat(500)
      [] str = "90000" -> PyFloat(90000)
      [] str = "nan" -> PyNaN
      [] OTHER -> Raise("ValueError")

\* float(x)
ToFloat(x) ==
    CASE x.t = "int" -> PyFloatQ(x.n, 1)
      [] x.t = "str" -> ParsedFloat(x.s)
      [] x.t = "none" -> Raise("TypeError")
      [] x.t = "bigint" -> Raise("OverflowError")
      [] OTHER -> x

(***************************************************************************)
(* The SQLite store.  A table is the sequence of its rows in rowid order;  *)
(* metrics is the set of its rows.  clock counts the committed writes and  *)
(* datetime.now() is the reading clock + 1.  Names, positions, products   *)
(* and customers are a str or None.                                        *)
(***************************************************************************)
EmptyDb ==
    [metrics |-> {}, employees |-> <<>>, sales |-> <<>>,
     seq |-> [employees |-> 0, sales |-> 0], clock |-> 0]

Now(d) == d.clock + 1

\* what binding a Python value to a REAL NOT NULL column does
BindReal(x) ==
    CASE x.t \in {"int", "float"} -> PyFloatQ(x.n, x.d)
      [] x.t = "nan" -> Raise("sqlite3.IntegrityError")
      [] x.t = "bigint" -> Raise("OverflowError")
      [] OTHER -> Raise("sqlite3.ProgrammingError")

IsSqliteError(x) ==
    IsExc(x) /\ x.s \in {"sqlite3.IntegrityError", "sqlite3.ProgrammingError",
                         "sqlite3.OperationalError"}

\* the outcome of a write: a return value, or an exception that left the try
Returned(d, b) == [ret |-> b, raised |-> "", db |-> d]

Raised(d, kind) == [ret |-> FALSE, raised |-> kind, db |-> d]

(***************************************************************************)
(* BusinessDashboard: the writes.  ioError says that the store raises      *)
(* sqlite3.OperationalError while the statement executes or commits, that  *)
(* is after the statement's parameters were evaluated and bound.           *)
(***************************************************************************)
\* a plain INSERT, without the ON CONFLICT clause taking effect
UpsertKeepsOld(d, name, v) ==
    LET row == [name |-> name, value |-> v, updated_at |-> Now(d)]
    IN  [d EXCEPT !.metrics = d.metrics \cup {row}, !.clock = d.clock + 1]

\* INSERT ... ON CONFLICT(name) DO UPDATE SET value, updated_at
Upsert(d, name, v) ==
    LET row == [name |-> name, value |-> v, updated_at |-> Now(d)]
        old == {r \in d.metrics : r.name = name}
    IN  [d EXCEPT !.metrics = (d.metrics \ old) \cup {row}, !.clock = d.clock + 1]

add_metric(d, name, value, ioError) ==
    IF ~Truthy(name) \/ ~IsIntOrFloat(value) THEN Returned(d, FALSE)
    ELSE LET f == ToFloat(value)
             v == BindReal(f)
         IN  IF IsExc(f) THEN Raised(d, f.s)
             ELSE IF IsSqliteError(v) \/ ioError THEN Returned(d, FALSE)
             ELSE Returned(Upsert(d, name.s, v), TRUE)

\* INSERT INTO employees: AUTOINCREMENT gives the id after the largest ever used
InsertEmployee(d, name, position, salary) ==
    LET id == d.seq.employees + 1
        row == [id |-> id, name |-> name, position |-> position,
                salary |-> salary, hired_date |-> Now(d)]
    IN  [d EXCEPT !.employees = Append(d.employees, row),
                  !.seq.employees = id, !.clock = d.clock + 1]

\* salary <= 0 in place of salary < 0
add_employeeRejectsZero(d, name, position, salary, ioError) ==
    IF ~Truthy(name) \/ ~Truthy(position) \/ PyLe(salary, 0) THEN Returned(d, FALSE)
    ELSE LET v == BindReal(salary)
         IN  IF IsSqliteError(v) THEN Returned(d, FALSE)
             ELSE IF IsExc(v) THEN Raised(d, v.s)
             ELSE IF ioError THEN Returned(d, FALSE)
             ELSE Returned(InsertEmployee(d, name.s, position.s, v), TRUE)

\* without the except sqlite3.Error clause
add_employeeNoExcept(d, name, position, salary, ioError) ==
    IF ~Truthy(name) \/ ~Truthy(position) \/ PyLt(salary, 0) THEN Returned(d, FALSE)
    ELSE LET v == BindReal(salary)
         IN  IF IsExc(v) THEN Raised(d, v.s)
             ELSE IF ioError THEN Raised(d, "sqlite3.OperationalError")
             ELSE Returned(InsertEmployee(d, name.s, position.s, v), TRUE)

add_employee(d, name, position, salary, ioError) ==
    IF ~Truthy(name) \/ ~Truthy(position) \/ PyLt(salary, 0) THEN Returned(d, FALSE)
    ELSE LET v == BindReal(salary)
         IN  IF IsSqliteError(v) THEN Returned(d, FALSE)
             ELSE IF IsExc(v) THEN Raised(d, v.s)
             ELSE IF ioError THEN Returned(d, FALSE)
             ELSE Returned(InsertEmployee(d, name.s, position.s, v), TRUE)

InsertSale(d, product, amount, customer) ==
    LET id == d.seq.sales + 1
        row == [id |-> id, product |-> product, amount |-> amount,
                customer |-> customer, sale_date |-> Now(d)]
    IN  [d EXCEPT !.sales = Append(d.sales, row),
                  !.seq.sales = id, !.clock = d.clock + 1]

\* amount < 0 in place of amount <= 0
add_saleAcceptsZero(d, product, amount, customer, ioError) ==
    IF ~Truthy(product) \/ PyLt(amount, 0) \/ ~Truthy(customer) THEN Returned(d, FALSE)
    ELSE LET v == BindReal(amount)
         IN  IF IsSqliteError(v) THEN Returned(d, FALSE)
             ELSE IF IsExc(v) THEN Raised(d, v.s)
             ELSE IF ioError THEN Returned(d, FALSE)
             ELSE Returned(InsertSale(d, product.s, v, customer.s), TRUE)

add_sale(d, product, amount, customer, ioError) ==
    IF ~Truthy(product) \/ PyLe(amount, 0) \/ ~Truthy(customer) THEN Returned(d, FALSE)
    ELSE LET v == BindReal(amount)
         IN  IF IsSqliteError(v) THEN Returned(d, FALSE)
             ELSE IF IsExc(v) THEN Raised(d, v.s)
             ELSE IF ioError THEN Returned(d, FALSE)
             ELSE Returned(InsertSale(d, product.s, v, customer.s), TRUE)

(***************************************************************************)
(* BusinessDashboard: the reads.                                           *)
(***************************************************************************)
\* SELECT value FROM metrics WHERE name = ?, fetchone
get_metric(d, name) ==
    LET rows == {r \in d.metrics : r.name = name}
    IN  IF rows = {} THEN PyNone ELSE (CHOOSE r \in rows : TRUE).value

\* {row['name']: row['value'] for row in SELECT name, value FROM metrics}
get_all_metrics(d) ==
    [nm \in {r.name : r \in d.metrics} |->
        (CHOOSE r \in d.metrics : r.name = nm).value]

\* ORDER BY id DESC: the rowid order, backwards
OrderByIdDesc(rows) == [i \in 1..Len(rows) |-> rows[Len(rows) + 1 - i]]

\* LIMIT k
Limit(rows, k) == IF Len(rows) <= k THEN rows ELSE SubSeq(rows, 1, k)

SalesLimit == 100

get_employees(d) == OrderByIdDesc(d.employees)

get_employee_count(d) == Len(d.employees)

\* without LIMIT 100
get_salesNoLimit(d) == OrderByIdDesc(d.sales)

get_sales(d) == Limit(OrderByIdDesc(d.sales), SalesLimit)

\* x + y on floats, exactly
AddQ(x, y) == PyFloatQ(x.n * y.d + y.n * x.d, x.d * y.d)

RECURSIVE SumAmounts(_, _, _)
\* the exact sum of the amounts of rows[lo..hi], lo <= hi, split in halves to
\* keep the evaluation shallow
SumAmounts(rows, lo, hi) ==
    IF lo = hi THEN rows[lo].amount
    ELSE LET mid == (lo + hi) \div 2
         IN  AddQ(SumAmounts(rows, lo, mid), SumAmounts(rows, mid + 1, hi))

\* SUM(amount): NULL over no rows
SqlSum(rows) == IF Len(rows) = 0 THEN PyNone ELSE SumAmounts(rows, 1, Len(rows))

\* AVG(amount): NULL over no rows
SqlAvg(rows) ==
    IF Len(rows) = 0 THEN PyNone
    ELSE LET total == SumAmounts(rows, 1, Len(rows))
         IN  PyFloatQ(total.n, total.d * Len(rows))

\* COALESCE(x, 0)
Coalesce0(x) == IF x.t = "none" THEN PyInt(0) ELSE x

get_total_revenue(d) == Coalesce0(SqlSum(d.sales))

\* the length of the listing in place of COUNT(*)
get_sales_countOfListing(d) == Len(get_sales(d))

get_sales_count(d) == Len(d.sales)

\* without the `if result else 0.0`
get_average_saleNoDefault(d) == SqlAvg(d.sales)

get_average_sale(d) ==
    LET result == SqlAvg(d.sales)
    IN  IF Truthy(result) THEN result ELSE PyFloat(0)

get_dashboard_summary(d) ==
    [total_employees |-> get_employee_count(d),
     total_sales |-> get_sales_count(d),
     total_revenue |-> get_total_revenue(d),
     average_sale |-> get_average_sale(d),
     metrics |-> get_all_metrics(d)]

(***************************************************************************)
(* The Flask routes.  A view returns a tuple (body, second); Flask takes   *)
(* an int second element as the status, and a tuple second element as the  *)
(* headers, which it then fails to unpack: the request ends in a 500.      *)
(***************************************************************************)
JsonMessage(m) == [message |-> m]

JsonError(e) == [error |-> e]

ServerError == [html |-> "Internal Server Error"]

\* (body, code)
WithStatus(body, code) == [body |-> body, second |-> [kind |-> "int", code |-> code]]

\* (jsonify(ok), 201 if success else (jsonify(err), 400)): the conditional
\* expression binds tighter than the comma
AddedReturn(success, ok, err) ==
    [body |-> JsonMessage(ok),
     second |-> IF success THEN [kind |-> "int", code |-> 201]
                ELSE [kind |-> "tuple", code |-> 400]]

\* the response a view's return value becomes
make_response(rv) ==
    IF rv.second.kind = "int" THEN [status |-> rv.second.code, body |-> rv.body]
    ELSE [status |-> 500, body |-> ServerError]

\* the outcome of a request: the response, whether the data layer was called and
\* what it returned, and the store afterwards
Handled(d, resp, called, ret) ==
    [status |-> resp.status, body |-> resp.body, called |-> called, ret |-> ret, db |-> d]

BadRequest(d, e) == Handled(d, make_response(WithStatus(JsonError(e), 400)), FALSE, FALSE)

\* an exception that no except clause of the view catches
Unhandled(d) == Handled(d, [status |-> 500, body |-> ServerError], FALSE, FALSE)

\* except ValueError
IsCaughtValueErrorOnly(x) == IsExc(x) /\ x.s = "ValueError"

\* except (TypeError, ValueError)
IsCaught(x) == IsExc(x) /\ x.s \in {"TypeError", "ValueError"}

\* POST /api/metrics
http_add_metric(d, data, ioError) ==
    LET name == data.name
        value == ToFloat(data.value)
    IN  IF IsCaught(value) THEN BadRequest(d, "Invalid input")
        ELSE IF IsExc(value) THEN Unhandled(d)
        ELSE IF ~Truthy(name) THEN BadRequest(d, "Metric name required")
        ELSE LET r == add_metric(d, name, value, ioError)
             IN  Handled(r.db,
                         make_response(AddedReturn(r.ret, "Metric added successfully",
                                                   "Failed to add metric")),
                         TRUE, r.ret)

\* POST /api/employees
http_add_employee(d, data, ioError) ==
    LET name == data.name
        position == data.position
        salary == ToFloat(data.salary)
    IN  IF IsCaught(salary) THEN BadRequest(d, "Invalid input")
        ELSE IF IsExc(salary) THEN Unhandled(d)
        ELSE IF ~Truthy(name) \/ ~Truthy(position) \/ PyLt(salary, 0)
             THEN BadRequest(d, "Invalid employee data")
        ELSE LET r == add_employee(d, name, position, salary, ioError)
             IN  Handled(r.db,
                         make_response(AddedReturn(r.ret, "Employee added successfully",
                                                   "Failed to add employee")),
                         TRUE, r.ret)

\* POST /api/sales
http_add_sale(d, data, ioError) ==
    LET product == data.product
        customer == data.customer
        amount == ToFloat(data.amount)
    IN  IF IsCaught(amount) THEN BadRequest(d, "Invalid input")
        ELSE IF IsExc(amount) THEN Unhandled(d)
        ELSE IF ~Truthy(product) \/ ~Truthy(customer) \/ PyLe(amount, 0)
             THEN BadRequest(d, "Invalid sale data")
        ELSE LET r == add_sale(d, product, amount, customer, ioError)
             IN  Handled(r.db,
                         make_response(AddedReturn(r.ret, "Sale added successfully",
                                                   "Failed to add sale")),
                         TRUE, r.ret)

Ok(d, body) == Handled(d, [status |-> 200, body |-> body], FALSE, FALSE)

\* GET /health
http_health(d) == Ok(d, [status |-> "healthy", timestamp |-> Now(d)])

\* GET /api/dashboard
http_get_dashboard(d) == Ok(d, get_dashboard_summary(d))

\* GET /api/metrics
http_get_metrics(d) == Ok(d, [metrics |-> get_all_metrics(d)])

\* GET /api/employees
http_get_employees(d) ==
    LET employees == get_employees(d)
    IN  Ok(d, [employees |-> employees, count |-> Len(employees)])

\* count taken from get_sales_count in place of len(sales)
http_get_salesTotalCount(d) ==
    Ok(d, [sales |-> get_sales(d), count |-> get_sales_count(d)])

\* GET /api/sales
http_get_sales(d) ==
    LET sales == get_sales(d)
    IN  Ok(d, [sales |-> sales, count |-> Len(sales)])

(***************************************************************************)
(* State.  db is the database file; last is the latest call or request     *)
(* with its outcome.  History: okEmployees and okSales count the add calls *)
(* that returned True, okRevenue sums the amounts of the sales they added, *)
(* okMetrics maps a metric name to the values of the add_metric calls     *)
(* with that name that returned True, in call order.                       *)
(***************************************************************************)
NoBody == <<>>

Outcome(op, args, ioError, called, ret, raised, status, body) ==
    [op |-> op, args |-> args, ioError |-> ioError, called |-> called,
     ret |-> ret, raised |-> raised, status |-> status, body |-> body]

Init ==
    /\ db = EmptyDb
    /\ last = Outcome("init", <<>>, FALSE, FALSE, FALSE, "", 0, NoBody)
    /\ okEmployees = 0
    /\ okSales = 0
    /\ okRevenue = PyFloat(0)
    /\ okMetrics = <<>>

\* the history after an add_metric call
MetricAdded(ok, name, value) ==
    /\ okMetrics' =
           IF ~ok THEN okMetrics
           ELSE IF name.s \in DOMAIN okMetrics
                THEN [okMetrics EXCEPT ![name.s] = Append(@, value)]
                ELSE (name.s :> <<value>>) @@ okMetrics
    /\ UNCHANGED <<okEmployees, okSales, okRevenue>>

\* the history after an add_employee call
EmployeeAdded(ok) ==
    /\ okEmployees' = IF ok THEN okEmployees + 1 ELSE okEmployees
    /\ UNCHANGED <<okSales, okRevenue, okMetrics>>

\* the history after an add_sale call
SaleAdded(ok, amount) ==
    /\ okSales' = IF ok THEN okSales + 1 ELSE okSales
    /\ okRevenue' = IF ok THEN AddQ(okRevenue, amount) ELSE okRevenue
    /\ UNCHANGED <<okEmployees, okMetrics>>

(***************************************************************************)
(* Direct calls of the data access layer.                                  *)
(***************************************************************************)
AddMetric(name, value, ioError) ==
    LET r == add_metric(db, name, value, ioError)
    IN  /\ db' = r.db
        /\ last' = Outcome("add_metric", [name |-> name, value |-> value], ioError,
                            TRUE, r.ret, r.raised, 0, NoBody)
        /\ MetricAdded(r.ret, name, value)

AddEmployee(name, position, salary, ioError) ==
    LET r == add_employee(db, name, position, salary, ioError)
    IN  /\ db' = r.db
        /\ last' = Outcome("add_employee",
                            [name |-> name, position |-> position, salary |-> salary],
                            ioError, TRUE, r.ret, r.raised, 0, NoBody)
        /\ EmployeeAdded(r.ret)

AddSale(product, amount, customer, ioError) ==
    LET r == add_sale(db, product, amount, customer, ioError)
    IN  /\ db' = r.db
        /\ last' = Outcome("add_sale",
                            [product |-> product, amount |-> amount, customer |-> customer],
                            ioError, TRUE, r.ret, r.raised, 0, NoBody)
        /\ SaleAdded(r.ret, amount)

(***************************************************************************)
(* Requests.                                                               *)
(***************************************************************************)
PostMetrics(data, ioError) ==
    LET h == http_add_metric(db, data, ioError)
    IN  /\ db' = h.db
        /\ last' = Outcome("POST /api/metrics", data, ioError, h.called, h.ret, "",
                            h.status, h.body)
        /\ MetricAdded(h.called /\ h.ret, data.name, ToFloat(data.value))

PostEmployees(data, ioError) ==
    LET h == http_add_employee(db, data, ioError)
    IN  /\ db' = h.db
        /\ last' = Outcome("POST /api/employees", data, ioError, h.called, h.ret, "",
                            h.status, h.body)
        /\ EmployeeAdded(h.called /\ h.ret)

PostSales(data, ioError) ==
    LET h == http_add_sale(db, data, ioError)
    IN  /\ db' = h.db
        /\ last' = Outcome("POST /api/sales", data, ioError, h.called, h.ret, "",
                            h.status, h.body)
        /\ SaleAdded(h.called /\ h.ret, ToFloat(data.amount))

Get(op, h) ==
    /\ last' = Outcome(op, <<>>, FALSE, FALSE, FALSE, "", h.status, h.body)
    /\ UNCHANGED <<db, okEmployees, okSales, okRevenue, okMetrics>>

GetHealth == Get("GET /health", http_health(db))

GetDashboard == Get("GET /api/dashboard", http_get_dashboard(db))

GetMetrics == Get("GET /api/metrics", http_get_metrics(db))

GetEmployees == Get("GET /api/employees", http_get_employees(db))

GetSales == Get("GET /api/sales", http_get_sales(db))

(***************************************************************************)
(* Inputs.                                                                 *)
(***************************************************************************)
MetricNames == {PyStr(""), PyStr("monthly_growth"), PyStr("customer_satisfaction")}

\* 5, 15.2, nan, a str, an int too large for a float
MetricValues == {PyInt(5), PyFloatQ(76, 5), PyNaN, PyStr("x"), PyHuge}

EmployeeNames == {PyStr(""), PyStr("Alice")}

Positions == {PyStr(""), PyStr("Engineer")}

Salaries == {PyInt(-1), PyInt(0), PyFloat(90000), PyNaN}

Products == {PyStr(""), PyStr("Product X")}

Customers == {PyStr(""), PyStr("Client A")}

\* -1, 0, 500, 1200.50, nan
Amounts == {PyInt(-1), PyInt(0), PyFloat(500), PyFloatQ(2401, 2), PyNaN}

\* JSON bodies: a missing field reads as None
MetricBodies ==
    [name : {PyNone, PyStr("monthly_growth")},
     value : {PyNone, PyStr("abc"), PyStr("nan"), PyStr("15"), PyFloatQ(76, 5), PyHuge}]

EmployeeBodies ==
    [name : {PyNone, PyStr("Alice")}, position : {PyNone, PyStr("Engineer")},
     salary : {PyNone, PyStr("abc"), PyStr("nan"), PyInt(-1), PyInt(90000)}]

SaleBodies ==
    [product : {PyNone, PyStr("Product X")}, customer : {PyNone, PyStr("Client A")},
     amount : {PyNone, PyStr("abc"), PyStr("nan"), PyInt(0), PyFloatQ(2401, 2)}]

(***************************************************************************)
(* Spec: the data access layer under direct calls.                         *)
(***************************************************************************)
CallMetric ==
    \E name \in MetricNames, value \in MetricValues, ioError \in BOOLEAN :
        db.clock < MaxWrites /\ AddMetric(name, value, ioError)

CallEmployee ==
    \E name \in EmployeeNames, position \in Positions, salary \in Salaries,
       ioError \in BOOLEAN :
        db.clock < MaxWrites /\ AddEmployee(name, position, salary, ioError)

CallSale ==
    \E product \in Products, amount \in Amounts, customer \in Customers,
       ioError \in BOOLEAN :
        db.clock < MaxWrites /\ AddSale(product, amount, customer, ioError)

Next == CallMetric \/ CallEmployee \/ CallSale

Spec == Init /\ [][Next]_vars

(***************************************************************************)
(* SpecHttp: the routes.                                                   *)
(***************************************************************************)
RequestPostMetrics ==
    \E data \in MetricBodies, ioError \in BOOLEAN :
        db.clock < MaxWrites /\ PostMetrics(data, ioError)

RequestPostEmployees ==
    \E data \in EmployeeBodies, ioError \in BOOLEAN :
        db.clock < MaxWrites /\ PostEmployees(data, ioError)

RequestPostSales ==
    \E data \in SaleBodies, ioError \in BOOLEAN :
        db.clock < MaxWrites /\ PostSales(data, ioError)

NextHttp ==
    \/ RequestPostMetrics
    \/ RequestPostEmployees
    \/ RequestPostSales
    \/ GetHealth
    \/ GetDashboard
    \/ GetMetrics
    \/ GetEmployees
    \/ GetSales

SpecHttp == Init /\ [][NextHttp]_vars

(***************************************************************************)
(* SpecBulk: a few writes to any table, then sales beyond the limit of     *)
(* get_sales, with the listings and the summary read throughout.           *)
(***************************************************************************)
PreludeMetric ==
    \E value \in {PyFloatQ(9, 2), PyStr("x")} :
        db.clock < MaxPrelude /\ AddMetric(PyStr("customer_satisfaction"), value, FALSE)

PreludeEmployee ==
    \E salary \in {PyInt(-1), PyInt(75000)} :
        db.clock < MaxPrelude
        /\ AddEmployee(PyStr("John Doe"), PyStr("Manager"), salary, FALSE)

PreludeSale ==
    db.clock < MaxPrelude
    /\ AddSale(PyStr("Product A"), PyFloatQ(2401, 2), PyStr("Acme Corp"), FALSE)

BulkSale ==
    \E amount \in {PyInt(0), PyFloat(850)}, ioError \in BOOLEAN :
        /\ db.clock >= MaxPrelude
        /\ Len(db.sales) < MaxBulkSales
        /\ AddSale(PyStr("Product B"), amount, PyStr("Tech Industries"), ioError)

NextBulk ==
    \/ PreludeMetric
    \/ PreludeEmployee
    \/ PreludeSale
    \/ BulkSale
    \/ GetDashboard
    \/ GetEmployees
    \/ GetSales

SpecBulk == Init /\ [][NextBulk]_vars

(***************************************************************************)
(* Properties.                                                             *)
(***************************************************************************)
Posts == {"POST /api/metrics", "POST /api/employees", "POST /api/sales"}

NonEmptyStr(x) == x.t = "str" /\ x.s # ""

Min(a, b) == IF a <= b THEN a ELSE b

\* strictly descending ids
Descending(rows) == \A i \in 1..(Len(rows) - 1) : rows[i].id > rows[i + 1].id

ValidEmployee(a) ==
    /\ NonEmptyStr(a.name)
    /\ NonEmptyStr(a.position)
    /\ a.salary.t \in {"int", "float"}
    /\ a.salary.n >= 0

\* C1: an add_employee call with a non-empty name, a non-empty position and a
\* salary >= 0, the store not failing, returns True, grows the employee count by
\* exactly one, and get_employees then lists the new employee first, followed by
\* the employees stored before, in descending id order.
C1_AddEmployeeListedFirst ==
    [][(last'.op = "add_employee" /\ ValidEmployee(last'.args) /\ ~last'.ioError) =>
          /\ last'.ret
          /\ last'.raised = ""
          /\ get_employee_count(db') = get_employee_count(db) + 1
          /\ LET es == get_employees(db')
             IN  /\ Len(es) = get_employee_count(db')
                 /\ es[1].name = last'.args.name.s
                 /\ es[1].position = last'.args.position.s
                 /\ PyEq(es[1].salary, last'.args.salary)
                 /\ Tail(es) = get_employees(db)
                 /\ Descending(es)]_vars

C1_Witness ==
    /\ last.op = "add_employee"
    /\ ValidEmployee(last.args)
    /\ last.ret
    /\ Len(get_employees(db)) >= 2
    /\ get_employees(db)[1].salary = PyFloat(0)

InvalidSale(a) ==
    \/ (a.amount.t \in {"int", "float"} /\ a.amount.n <= 0)
    \/ a.product \in {PyNone, PyStr("")}
    \/ a.customer \in {PyNone, PyStr("")}

\* C2: an add_sale call whose amount is <= 0, or whose product or customer is
\* empty, returns False and leaves the store as it was: the sales rows, the sales
\* count, the total revenue, and the employees and metrics tables.
C2_InvalidSaleRejected ==
    [][(last'.op = "add_sale" /\ InvalidSale(last'.args)) =>
          /\ ~last'.ret
          /\ last'.raised = ""
          /\ db'.sales = db.sales
          /\ get_sales_count(db') = get_sales_count(db)
          /\ get_total_revenue(db') = get_total_revenue(db)
          /\ db'.employees = db.employees
          /\ db'.metrics = db.metrics
          /\ db' = db]_vars

C2_Witness ==
    /\ last.op = "add_sale"
    /\ last.args.amount = PyInt(0)
    /\ NonEmptyStr(last.args.product)
    /\ NonEmptyStr(last.args.customer)
    /\ ~last.ret
    /\ get_sales_count(db) >= 1

LastOf(seq) == seq[Len(seq)]

\* C3: the metrics table holds at most one row per name; get_metric(name) and the
\* entry of get_all_metrics are the value of the latest add_metric call with that
\* name that returned True; get_metric of a name never added is None.
C3_MetricUpsert ==
    /\ \A r1, r2 \in db.metrics : r1.name = r2.name => r1 = r2
    /\ {r.name : r \in db.metrics} = DOMAIN okMetrics
    /\ DOMAIN get_all_metrics(db) = DOMAIN okMetrics
    /\ \A nm \in DOMAIN okMetrics :
          /\ PyEq(get_metric(db, nm), LastOf(okMetrics[nm]))
          /\ PyEq(get_all_metrics(db)[nm], LastOf(okMetrics[nm]))
    /\ \A nm \in {x.s : x \in MetricNames} \ DOMAIN okMetrics :
          get_metric(db, nm) = PyNone

\* the same name added twice with different values: one row, the second value
C3_Witness ==
    \E nm \in DOMAIN okMetrics :
        /\ Len(okMetrics[nm]) = 2
        /\ ~PyEq(okMetrics[nm][1], okMetrics[nm][2])
        /\ Cardinality({r \in db.metrics : r.name = nm}) = 1
        /\ PyEq(get_metric(db, nm), okMetrics[nm][2])

C5_DashboardSummary ==
    LET summary == get_dashboard_summary(db)
    IN  /\ summary.total_employees = okEmployees
        /\ summary.total_sales = okSales
        /\ PyEq(summary.total_revenue, okRevenue)
        /\ summary.total_sales > 0 =>
              /\ IsNumber(summary.average_sale)
              /\ summary.average_sale.n * summary.total_revenue.d * summary.total_sales
                    = summary.total_revenue.n * summary.average_sale.d
        /\ DOMAIN summary.metrics = DOMAIN okMetrics
        /\ \A nm \in DOMAIN okMetrics :
              PyEq(summary.metrics[nm], LastOf(okMetrics[nm]))
        /\ last.op = "GET /api/dashboard" => last.body = summary

C5_Witness ==
    /\ last.op = "GET /api/dashboard"
    /\ last.body.total_sales > 100
    /\ last.body.total_sales = okSales
    /\ last.body.total_employees + Cardinality(DOMAIN last.body.metrics) = 1
    /\ ~PyEq(last.body.average_sale, PyFloat(850))

\* C6: while no add_sale call has returned True, get_average_sale returns 0.0 and
\* get_total_revenue returns 0, neither None nor an error.
C6_EmptySalesAggregates ==
    okSales = 0 =>
        /\ Len(db.sales) = 0
        /\ get_average_sale(db) = PyFloat(0)
        /\ IsNumber(get_total_revenue(db))
        /\ get_total_revenue(db).n = 0

C6_Witness ==
    /\ okSales = 0
    /\ last.op = "add_sale"
    /\ ~last.ret
    /\ db.clock >= 1
    /\ get_average_sale(db) = PyFloat(0)

Confirmation(op) ==
    CASE op = "POST /api/metrics" -> "Metric added successfully"
      [] op = "POST /api/employees" -> "Employee added successfully"
      [] op = "POST /api/sales" -> "Sale added successfully"

Failure(op) ==
    CASE op = "POST /api/metrics" -> "Failed to add metric"
      [] op = "POST /api/employees" -> "Failed to add employee"
      [] op = "POST /api/sales" -> "Failed to add sale"

\* C7: when a POST body passes parsing and validation, the handler answers 201
\* with the confirmation message if the add call returned True, and 400 with
\* {"error": "Failed to add X"} if it returned False; never a 500.
C7_FailedAddAnswers400 ==
    (last.op \in Posts /\ last.called) =>
        /\ last.status # 500
        /\ IF last.ret
           THEN last.status = 201 /\ last.body = JsonMessage(Confirmation(last.op))
           ELSE last.status = 400 /\ last.body = JsonError(Failure(last.op))

\* the numeric field and the string fields of a POST body
NumericField(o) ==
    CASE o.op = "POST /api/metrics" -> o.args.value
      [] o.op = "POST /api/employees" -> o.args.salary
      [] o.op = "POST /api/sales" -> o.args.amount

StringFields(o) ==
    CASE o.op = "POST /api/metrics" -> {o.args.name}
      [] o.op = "POST /api/employees" -> {o.args.name, o.args.position}
      [] o.op = "POST /api/sales" -> {o.args.product, o.args.customer}

\* missing, or a string that is no number
NotNumeric(x) == x.t = "none" \/ (x.t = "str" /\ x.s \in {"", "abc"})

\* a number, or a string that is one
Numeric(x) ==
    \/ x.t \in {"int", "float", "nan"}
    \/ (x.t = "str" /\ x.s \in {"15", "500", "90000", "nan"})

ValidationError(op) ==
    CASE op = "POST /api/metrics" -> "Metric name required"
      [] op = "POST /api/employees" -> "Invalid employee data"
      [] op = "POST /api/sales" -> "Invalid sale data"

\* C8 as stated: a POST body with any required field missing, string fields
\* included, or with a numeric field that is no number, is answered 400
\* {"error": "Invalid input"} and leaves the store unchanged.
C8_MissingFieldInvalidInput ==
    [][(last'.op \in Posts
        /\ (PyNone \in StringFields(last') \/ NotNumeric(NumericField(last')))) =>
          /\ last'.status = 400
          /\ last'.body = JsonError("Invalid input")
          /\ db' = db]_vars

\* C8, amended: a POST body whose numeric field is missing or is no number is
\* answered 400 {"error": "Invalid input"}; one whose numeric field converts but
\* whose string field is missing is answered 400 with the endpoint's validation
\* message; both leave the store unchanged.
C8_InvalidInputOrValidationError ==
    [][last'.op \in Posts =>
          /\ NotNumeric(NumericField(last')) =>
                /\ last'.status = 400
                /\ last'.body = JsonError("Invalid input")
                /\ ~last'.called
                /\ db' = db
          /\ (Numeric(NumericField(last')) /\ PyNone \in StringFields(last')) =>
                /\ last'.status = 400
                /\ last'.body = JsonError(ValidationError(last'.op))
                /\ ~last'.called
                /\ db' = db]_vars

C8_Witness ==
    /\ last.op = "POST /api/employees"
    /\ last.args.salary = PyNone
    /\ last.args.name = PyStr("Alice")
    /\ last.status = 400
    /\ last.body = JsonError("Invalid input")
    /\ get_employee_count(db) >= 1

\* the call got as far as the store, and the store raised sqlite3.Error
StoreRaised(o) ==
    CASE o.op = "add_metric" ->
           /\ NonEmptyStr(o.args.name)
           /\ o.args.value.t \in {"int", "float", "nan"}
           /\ (o.ioError \/ o.args.value.t = "nan")
      [] o.op = "add_employee" ->
           /\ NonEmptyStr(o.args.name)
           /\ NonEmptyStr(o.args.position)
           /\ \/ (o.args.salary.t \in {"int", "float"} /\ o.args.salary.n >= 0)
              \/ o.args.salary.t = "nan"
           /\ (o.ioError \/ o.args.salary.t = "nan")
      [] o.op = "add_sale" ->
           /\ NonEmptyStr(o.args.product)
           /\ NonEmptyStr(o.args.customer)
           /\ \/ (o.args.amount.t \in {"int", "float"} /\ o.args.amount.n > 0)
              \/ o.args.amount.t = "nan"
           /\ (o.ioError \/ o.args.amount.t = "nan")
      [] OTHER -> FALSE

\* C9: when the store raises a storage error during the write of add_metric,
\* add_employee or add_sale, the call returns False, no exception reaches the
\* caller, and no row of any table is added or changed.
C9_StorageErrorReturnsFalse ==
    [][StoreRaised(last') =>
          /\ ~last'.ret
          /\ last'.raised = ""
          /\ db' = db]_vars

C9_Witness ==
    /\ last.op = "add_employee"
    /\ ValidEmployee(last.args)
    /\ last.ioError
    /\ ~last.ret
    /\ last.raised = ""
    /\ get_employee_count(db) >= 1

====
